---- MODULE Spec2Model ----
(***************************************************************************)
(* Model of the ILI9488 (Rgb565) display model of mipidsi:                 *)
(*   src/mipidsi/src/models/ili9488.rs                                     *)
(*                                                                         *)
(* ILI9488Rgb565 is a unit struct: the driver keeps no state of its own.   *)
(* What is observable is what each call does to its collaborators (the     *)
(* Dcs command dispatcher over the transport, the reset pin, the delay     *)
(* source) and the value it returns.  `wire` records, in order, every      *)
(* collaborator call made by the call that is running (or ran last).       *)
(***************************************************************************)
EXTENDS Integers, Sequences, FiniteSets

VARIABLES
    pc,        \* position of the running call: [call, at]; call = "idle" between calls
    options,   \* the ModelOptions argument of the call, when it is an init
    rst,       \* the rst argument of the call, when it is an init: "None" or "Some"
    colors,    \* the pixels the iterator passed to write_pixels has not yielded yet
    input,     \* the pixel sequence passed to the call, when it is a write_pixels
    wire,      \* collaborator calls made by the current/last call, in order
    ret,       \* result of the call that returned last
    prev,      \* the last init call that returned before the current/last call
               \* began: its result and, when it returned Ok, its arguments and wire
    codec,     \* a DcsCommand being encoded into a destination buffer, and the outcome
    pending    \* bytes the transport has taken from the iterator and not yet put
               \* on the bus

vars == <<pc, options, rst, colors, input, wire, ret, prev, codec, pending>>

-----------------------------------------------------------------------------
(* Bounds of the exploration *)

MaxPixels == 2     \* longest pixel sequence passed to write_pixels
MaxCap == 5        \* largest small destination buffer handed to the codec
MaxRuns == 2       \* times the same encoding is repeated

-----------------------------------------------------------------------------
(* Caller inputs *)

Rotations == {0, 90, 180, 270}
ColorOrders == {"Rgb", "Bgr"}

ModelOptions ==
    [rotation : Rotations, mirrored : BOOLEAN,
     color_order : ColorOrders, invert_colors : BOOLEAN]

RstArgs == {"None", "Some"}

\* Rgb565 channel widths
RBits == 5
GBits == 6
BBits == 5

Pow2(n) == 2 ^ n

\* A few logical Rgb565 colours: black, white, red, and one with mixed bits
Rgb565 ==
    { [r |-> 0, g |-> 0, b |-> 0],
      [r |-> 31, g |-> 63, b |-> 31],
      [r |-> 31, g |-> 0, b |-> 0],
      [r |-> 2, g |-> 17, b |-> 20] }

RECURSIVE SeqsUpTo(_, _)
SeqsUpTo(S, n) ==
    IF n = 0 THEN {<<>>}
    ELSE LET shorter == SeqsUpTo(S, n - 1)
         IN  shorter \cup {Append(s, x) : s \in {t \in shorter : Len(t) = n - 1}, x \in S}

PixelSeqs == SeqsUpTo(Rgb565, MaxPixels)

-----------------------------------------------------------------------------
(* Pure helpers *)

\* Rgb565::into_storage: the 16-bit storage value rrrrrggg gggbbbbb
into_storage(c) == (c.r * Pow2(GBits + BBits) + c.g * Pow2(BBits) + c.b) % Pow2(16)

\* Slip: the little-endian iterator format, low byte first
U16LE(v) == <<v % 256, (v \div 256) % 256>>

\* DataFormat::U16BEIter: each 16-bit value goes out high byte first
U16BE(v) == <<(v \div 256) % 256, v % 256>>

\* BitsPerPixel::from_rgb_color::<Rgb565>(): the sum of the channel widths
BitsPerPixel_from_rgb_color == RBits + GBits + BBits

\* PixelFormat::with_all(bpp): the same bits-per-pixel for both interfaces
PixelFormat_with_all(bpp) == bpp

\* SetAddressMode::from(options): the memory-access-control bitfield
\* (MY 0x80, MX 0x40, MV 0x20, BGR 0x08), from rotation, mirroring, colour order
SetAddressMode_from(o) ==
    LET rot == CASE o.rotation = 0   -> 0
                 [] o.rotation = 90  -> 96
                 [] o.rotation = 180 -> 192
                 [] o.rotation = 270 -> 160
        mx  == (rot \div 64) % 2
        mir == IF o.mirrored THEN rot + (IF mx = 1 THEN -64 ELSE 64) ELSE rot
    IN  mir + (IF o.color_order = "Bgr" THEN 8 ELSE 0)

-----------------------------------------------------------------------------
(* Steps: the collaborator calls a driver function makes, in program order. *)
(* A typed command is named by its DcsCommand type and carries what it was   *)
(* constructed from; its instruction byte and the layout of its parameter    *)
(* bytes belong to crate::dcs.  A raw write is named by its opcode literal.  *)

write_command(op, params) == [kind |-> "cmd", op |-> op, params |-> params]
write_raw(op, params)     == [kind |-> "cmd", op |-> op, params |-> params]
delay_us(us)              == [kind |-> "delay", op |-> "delay_us", params |-> <<us>>]
set_low                   == [kind |-> "rst", op |-> "set_low", params |-> <<>>]
set_high                  == [kind |-> "rst", op |-> "set_high", params |-> <<>>]

\* Model::hard_reset: pull the reset line low, hold, release
hard_reset == <<set_low, delay_us(10), set_high>>

\* Slip: the orientation is written before the pixel format
init_common_reordered(o, pixel_format) ==
    LET madctl == SetAddressMode_from(o)
    IN  << write_command("ExitSleepMode", <<>>),
           write_command("SetAddressMode", <<madctl>>),
           write_command("SetPixelFormat", <<pixel_format>>),
           write_command("SetInvertMode", <<IF o.invert_colors THEN 1 ELSE 0>>),
           write_raw("0xc5", <<0, 30, 128, 177>>),
           write_raw("0xb1", <<176>>),
           write_raw("0xe0", <<0, 19, 24, 4, 15, 6, 58, 86, 77, 3, 10, 6, 48, 62, 15>>),
           write_raw("0xe1", <<0, 19, 24, 1, 17, 6, 56, 52, 77, 6, 13, 11, 49, 55, 15>>),
           write_raw("0xB6", <<0, 66>>),
           write_command("EnterNormalMode", <<>>),
           write_command("SetDisplayOn", <<>>),
           delay_us(120000) >>

\* Slip: init_common returns right after SetDisplayOn, without the delay
init_common_no_settle(o, pixel_format) ==
    LET madctl == SetAddressMode_from(o)
    IN  << write_command("ExitSleepMode", <<>>),
           write_command("SetPixelFormat", <<pixel_format>>),
           write_command("SetAddressMode", <<madctl>>),
           write_command("SetInvertMode", <<IF o.invert_colors THEN 1 ELSE 0>>),
           write_raw("0xc5", <<0, 30, 128, 177>>),
           write_raw("0xb1", <<176>>),
           write_raw("0xe0", <<0, 19, 24, 4, 15, 6, 58, 86, 77, 3, 10, 6, 48, 62, 15>>),
           write_raw("0xe1", <<0, 19, 24, 1, 17, 6, 56, 52, 77, 6, 13, 11, 49, 55, 15>>),
           write_raw("0xB6", <<0, 66>>),
           write_command("EnterNormalMode", <<>>),
           write_command("SetDisplayOn", <<>>) >>

\* Slip: the auxiliary scan-direction register is derived from the rotation
init_common_derived_b6(o, pixel_format) ==
    LET madctl == SetAddressMode_from(o)
        scan   == IF o.rotation = 0 THEN 66 ELSE 2
    IN  << write_command("ExitSleepMode", <<>>),
           write_command("SetPixelFormat", <<pixel_format>>),
           write_command("SetAddressMode", <<madctl>>),
           write_command("SetInvertMode", <<IF o.invert_colors THEN 1 ELSE 0>>),
           write_raw("0xc5", <<0, 30, 128, 177>>),
           write_raw("0xb1", <<176>>),
           write_raw("0xe0", <<0, 19, 24, 4, 15, 6, 58, 86, 77, 3, 10, 6, 48, 62, 15>>),
           write_raw("0xe1", <<0, 19, 24, 1, 17, 6, 56, 52, 77, 6, 13, 11, 49, 55, 15>>),
           write_raw("0xB6", <<0, scan>>),
           write_command("EnterNormalMode", <<>>),
           write_command("SetDisplayOn", <<>>),
           delay_us(120000) >>

\* Slip: the panel is woken twice
init_common_sleep_exit_twice(o, pixel_format) ==
    LET madctl == SetAddressMode_from(o)
    IN  << write_command("ExitSleepMode", <<>>),
           write_command("SetPixelFormat", <<pixel_format>>),
           write_command("SetAddressMode", <<madctl>>),
           write_command("SetInvertMode", <<IF o.invert_colors THEN 1 ELSE 0>>),
           write_raw("0xc5", <<0, 30, 128, 177>>),
           write_raw("0xb1", <<176>>),
           write_raw("0xe0", <<0, 19, 24, 4, 15, 6, 58, 86, 77, 3, 10, 6, 48, 62, 15>>),
           write_raw("0xe1", <<0, 19, 24, 1, 17, 6, 56, 52, 77, 6, 13, 11, 49, 55, 15>>),
           write_raw("0xB6", <<0, 66>>),
           write_command("ExitSleepMode", <<>>),
           write_command("EnterNormalMode", <<>>),
           write_command("SetDisplayOn", <<>>),
           delay_us(120000) >>

\* Slip: a gamma table with two entries too many
init_common_long_gamma(o, pixel_format) ==
    LET madctl == SetAddressMode_from(o)
    IN  << write_command("ExitSleepMode", <<>>),
           write_command("SetPixelFormat", <<pixel_format>>),
           write_command("SetAddressMode", <<madctl>>),
           write_command("SetInvertMode", <<IF o.invert_colors THEN 1 ELSE 0>>),
           write_raw("0xc5", <<0, 30, 128, 177>>),
           write_raw("0xb1", <<176>>),
           write_raw("0xe0", <<0, 19, 24, 4, 15, 6, 58, 86, 77, 3, 10, 6, 48, 62, 15, 0, 0>>),
           write_raw("0xe1", <<0, 19, 24, 1, 17, 6, 56, 52, 77, 6, 13, 11, 49, 55, 15>>),
           write_raw("0xB6", <<0, 66>>),
           write_command("EnterNormalMode", <<>>),
           write_command("SetDisplayOn", <<>>),
           delay_us(120000) >>

\* init_common: every `?` aborts at the first failing step
init_common(o, pixel_format) ==
    LET madctl == SetAddressMode_from(o)
    IN  << write_command("ExitSleepMode", <<>>),
           write_command("SetPixelFormat", <<pixel_format>>),
           write_command("SetAddressMode", <<madctl>>),
           write_command("SetInvertMode", <<IF o.invert_colors THEN 1 ELSE 0>>),
           write_raw("0xc5", <<0, 30, 128, 177>>),
           write_raw("0xb1", <<176>>),
           write_raw("0xe0", <<0, 19, 24, 4, 15, 6, 58, 86, 77, 3, 10, 6, 48, 62, 15>>),
           write_raw("0xe1", <<0, 19, 24, 1, 17, 6, 56, 52, 77, 6, 13, 11, 49, 55, 15>>),
           write_raw("0xB6", <<0, 66>>),
           write_command("EnterNormalMode", <<>>),
           write_command("SetDisplayOn", <<>>),
           delay_us(120000) >>

\* Slip: the default address mode is returned instead of the one written
init_common_value_default(o) == 0

\* The value init_common returns in Ok(..)
init_common_value(o) == SetAddressMode_from(o)

InitCommonSteps(o) == init_common(o, PixelFormat_with_all(BitsPerPixel_from_rgb_color))

\* Slip: nothing is done when there is no reset line
init_no_soft_reset(o, r) ==
    (IF r = "Some" THEN hard_reset ELSE <<>>)
    \o <<delay_us(120000)>> \o InitCommonSteps(o)

\* Slip: the software reset is sent on both paths
init_both_resets(o, r) ==
    (IF r = "Some" THEN hard_reset ELSE <<>>)
    \o <<write_command("SoftReset", <<>>), delay_us(120000)>> \o InitCommonSteps(o)

\* Slip: 120 us instead of 120 ms
init_short_settle(o, r) ==
    (IF r = "Some" THEN hard_reset ELSE <<write_command("SoftReset", <<>>)>>)
    \o <<delay_us(120)>> \o InitCommonSteps(o)

\* Slip: the reset step is skipped when an earlier init has succeeded
init_reset_once(o, r) ==
    (IF prev.valid /\ prev.ret.status = "Ok" THEN <<>>
     ELSE IF r = "Some" THEN hard_reset ELSE <<write_command("SoftReset", <<>>)>>)
    \o <<delay_us(120000)>> \o InitCommonSteps(o)

\* Slip: the 18-bit pixel format of the Rgb666 model is programmed
init_pixel_format_18(o, r) ==
    (IF r = "Some" THEN hard_reset ELSE <<write_command("SoftReset", <<>>)>>)
    \o <<delay_us(120000)>>
    \o init_common(o, PixelFormat_with_all(18))

\* ILI9488Rgb565::init
init(o, r) ==
    (IF r = "Some" THEN hard_reset ELSE <<write_command("SoftReset", <<>>)>>)
    \o <<delay_us(120000)>>
    \o init_common(o, PixelFormat_with_all(BitsPerPixel_from_rgb_color))

-----------------------------------------------------------------------------
(* Command codec: DcsCommand::instruction and DcsCommand::fill_params_buf *)

\* The parameter buffer of the dispatcher and of the test: [u8; 16]
BufferCapacity == 16

AddressSamples == {0, 5, 255, 256, 319, 479, 4660, 65535}
Capacities == (0..MaxCap) \cup {BufferCapacity}
Fills == {0, 170}

SetColumnAddress(sx, ex) == [name |-> "SetColumnAddress", start |-> sx, end |-> ex]
SetPageAddress(sy, ey)   == [name |-> "SetPageAddress", start |-> sy, end |-> ey]
AddressModeCommand(m)    == [name |-> "SetAddressMode", start |-> m, end |-> 0]

CodecCommands ==
    {SetColumnAddress(a, b) : a \in AddressSamples, b \in AddressSamples}
    \cup {SetPageAddress(a, b) : a \in {0, 479}, b \in {5, 4660}}
    \cup {AddressModeCommand(SetAddressMode_from(o)) : o \in ModelOptions}

\* Slip: u16::to_le_bytes, the low byte first
to_le_bytes(v) == <<v % 256, (v \div 256) % 256>>

\* u16::to_be_bytes
to_be_bytes(v) == <<(v \div 256) % 256, v % 256>>

\* DcsCommand::instruction
instruction(cmd) ==
    CASE cmd.name = "SetColumnAddress" -> 42
      [] cmd.name = "SetPageAddress"   -> 43
      [] cmd.name = "SetAddressMode"   -> 54

\* The parameter bytes of a command, in order: an address command carries
\* start then end, both 16-bit values encoded the same way. tests::cm_struct
\* fixes that way for end (end = 5 leaves the third byte 0, so the high byte
\* comes first).
command_params(cmd) ==
    IF cmd.name = "SetAddressMode" THEN <<cmd.start % 256>>
    ELSE to_be_bytes(cmd.start) \o to_be_bytes(cmd.end)

\* Slip: as many parameter bytes as fit are written and their number returned
fill_params_buf_truncating(cmd, buf) ==
    LET p == command_params(cmd)
        n == IF Len(buf) < Len(p) THEN Len(buf) ELSE Len(p)
    IN  [res |-> "Ok", n |-> n,
         buf |-> [i \in 1..Len(buf) |-> IF i <= n THEN p[i] ELSE buf[i]]]

\* DcsCommand::fill_params_buf: the capacity is checked before anything is written
fill_params_buf(cmd, buf) ==
    LET p == command_params(cmd)
    IN  IF Len(buf) < Len(p)
        THEN [res |-> "BufferTooSmall", n |-> 0, buf |-> buf]
        ELSE [res |-> "Ok", n |-> Len(p),
              buf |-> [i \in 1..Len(buf) |-> IF i <= Len(p) THEN p[i] ELSE buf[i]]]

NoOutcome == [res |-> "none", n |-> 0, buf |-> <<>>]

CodecInput(cmd, cap, fill) ==
    [cmd |-> cmd, orig |-> [i \in 1..cap |-> fill], out |-> NoOutcome,
     first |-> NoOutcome, ins |-> 0, runs |-> 0, test |-> "none"]

NoCodec == CodecInput(SetColumnAddress(0, 0), 0, 0)

\* tests::cm_struct: the expected bytes of the column-address command
cm1 == <<42, 0, 0, 0, 5>>

\* A caller encodes codec.cmd into a buffer holding codec.orig
FillParamsBuf ==
    /\ codec.runs < MaxRuns
    /\ codec.test = "none"
    /\ LET out == fill_params_buf(codec.cmd, codec.orig)
       IN  codec' = [codec EXCEPT !.out = out,
                                  !.first = IF codec.runs = 0 THEN out ELSE @,
                                  !.ins = instruction(codec.cmd),
                                  !.runs = @ + 1]
    /\ UNCHANGED <<pc, options, rst, colors, input, wire, ret, prev, pending>>

\* tests::cm_struct: SetColumnAddress::new(0, 5) into a zeroed [u8; 16], unwrap,
\* then the two assert_eq!
CmStruct ==
    /\ codec.runs = 0
    /\ codec.test = "none"
    /\ LET res1  == SetColumnAddress(0, 5)
           zero  == [i \in 1..BufferCapacity |-> 0]
           out   == fill_params_buf(res1, zero)
           ins   == instruction(res1)
           holds == /\ out.res = "Ok"
                    /\ cm1[1] = ins
                    /\ SubSeq(cm1, 2, 4) = SubSeq(out.buf, 1, 3)
       IN  codec' = [cmd |-> res1, orig |-> zero, out |-> out, first |-> out,
                     ins |-> ins, runs |-> 1,
                     test |-> IF holds THEN "passed" ELSE "failed"]
    /\ UNCHANGED <<pc, options, rst, colors, input, wire, ret, prev, pending>>

-----------------------------------------------------------------------------
(* State machine *)

Idle == [call |-> "idle", at |-> 0]
NoRet == [call |-> "none", status |-> "none", value |-> 0]
DefaultOptions ==
    [rotation |-> 0, mirrored |-> FALSE, color_order |-> "Rgb", invert_colors |-> FALSE]
NoPrev == [valid |-> FALSE, adjacent |-> FALSE, options |-> DefaultOptions,
           rst |-> "None", wire |-> <<>>, ret |-> NoRet]

\* What a caller starting a new call knows of the last init: the call that just
\* returned when that was an init, else the init before it
Archive ==
    IF ret.call = "init"
    THEN IF ret.status = "Ok"
         THEN [valid |-> TRUE, adjacent |-> TRUE, options |-> options, rst |-> rst,
               wire |-> wire, ret |-> ret]
         ELSE [NoPrev EXCEPT !.valid = TRUE, !.adjacent = TRUE, !.ret = ret]
    ELSE [prev EXCEPT !.adjacent = FALSE]

Event(step, ok) == [kind |-> step.kind, op |-> step.op, params |-> step.params, ok |-> ok]

Init ==
    /\ pc = Idle
    /\ options = DefaultOptions
    /\ rst = "None"
    /\ colors = <<>>
    /\ input = <<>>
    /\ wire = <<>>
    /\ ret = NoRet
    /\ prev = NoPrev
    /\ codec = NoCodec
    /\ pending = <<>>

\* The caller invokes init(dcs, delay, options, rst)
InitCall(o, r) ==
    /\ UNCHANGED <<codec, pending>>
    /\ pc.call = "idle"
    /\ options' = o
    /\ rst' = r
    /\ wire' = <<>>
    /\ ret' = NoRet
    /\ pc' = [call |-> "init", at |-> 1]
    /\ colors' = <<>>
    /\ input' = <<>>
    /\ prev' = Archive

InitStep == init(options, rst)[pc.at]

InitAt(kind) ==
    /\ pc.call = "init"
    /\ pc.at <= Len(init(options, rst))
    /\ InitStep.kind = kind

\* init returns r to the caller
InitReturn(r) ==
    /\ ret' = r
    /\ pc' = Idle
    /\ UNCHANGED prev

\* A dcs.write_command / dcs.write_raw of init that the transport accepts
InitCmdOk ==
    /\ UNCHANGED <<codec, pending>>
    /\ InitAt("cmd")
    /\ wire' = Append(wire, Event(InitStep, TRUE))
    /\ pc' = [pc EXCEPT !.at = @ + 1]
    /\ UNCHANGED <<options, rst, colors, input, ret, prev>>

\* Slip: the result of the write is dropped and init carries on
InitCmdFail_ignored ==
    /\ UNCHANGED <<codec, pending>>
    /\ InitAt("cmd")
    /\ wire' = Append(wire, Event(InitStep, FALSE))
    /\ pc' = [pc EXCEPT !.at = @ + 1]
    /\ UNCHANGED <<options, rst, colors, input, ret, prev>>

\* The transport fails: `?` returns the error, converted by From<Error> for InitError
InitCmdFail ==
    /\ UNCHANGED <<codec, pending>>
    /\ InitAt("cmd")
    /\ wire' = Append(wire, Event(InitStep, FALSE))
    /\ InitReturn([call |-> "init", status |-> "CommandFailure", value |-> 0])
    /\ UNCHANGED <<options, rst, colors, input>>

\* delay.delay_us(..) cannot fail
InitDelay ==
    /\ UNCHANGED <<codec, pending>>
    /\ InitAt("delay")
    /\ wire' = Append(wire, Event(InitStep, TRUE))
    /\ pc' = [pc EXCEPT !.at = @ + 1]
    /\ UNCHANGED <<options, rst, colors, input, ret, prev>>

\* The reset pin accepts set_low / set_high
InitRstOk ==
    /\ UNCHANGED <<codec, pending>>
    /\ InitAt("rst")
    /\ wire' = Append(wire, Event(InitStep, TRUE))
    /\ pc' = [pc EXCEPT !.at = @ + 1]
    /\ UNCHANGED <<options, rst, colors, input, ret, prev>>

\* Slip: the pin error is reported as a bus error
InitRstFail_as_command ==
    /\ UNCHANGED <<codec, pending>>
    /\ InitAt("rst")
    /\ wire' = Append(wire, Event(InitStep, FALSE))
    /\ InitReturn([call |-> "init", status |-> "CommandFailure", value |-> 0])
    /\ UNCHANGED <<options, rst, colors, input>>

\* The reset pin fails: hard_reset returns the pin error
InitRstFail ==
    /\ UNCHANGED <<codec, pending>>
    /\ InitAt("rst")
    /\ wire' = Append(wire, Event(InitStep, FALSE))
    /\ InitReturn([call |-> "init", status |-> "ResetLineFailure", value |-> 0])
    /\ UNCHANGED <<options, rst, colors, input>>

\* Ok(init_common(..)?): every step done
InitOk ==
    /\ UNCHANGED <<codec, pending>>
    /\ pc.call = "init" /\ pc.at = Len(init(options, rst)) + 1
    /\ wire' = wire
    /\ InitReturn([call |-> "init", status |-> "Ok", value |-> init_common_value(options)])
    /\ UNCHANGED <<options, rst, colors, input>>

\* Slip: a driver that remembers a failed init and then sends nothing
write_pixels_guarded ==
    IF prev.valid /\ prev.ret.status # "Ok" THEN <<>>
    ELSE <<write_command("WriteMemoryStart", <<>>)>>

\* ILI9488Rgb565::write_pixels: the command part
write_pixels == <<write_command("WriteMemoryStart", <<>>)>>

\* The caller invokes write_pixels(dcs, colors); the driver holds no state that
\* could refuse the call
WritePixelsCall(cs) ==
    /\ UNCHANGED <<codec, pending>>
    /\ pc.call = "idle"
    /\ colors' = cs
    /\ input' = cs
    /\ wire' = <<>>
    /\ ret' = NoRet
    /\ pc' = [call |-> "write_pixels", at |-> 1]
    /\ options' = DefaultOptions
    /\ rst' = "None"
    /\ prev' = Archive

WpReturn(status) ==
    /\ ret' = [call |-> "write_pixels", status |-> status, value |-> 0]
    /\ pc' = Idle

\* dcs.write_command(WriteMemoryStart) accepted
WpCmdOk ==
    /\ UNCHANGED <<codec, pending>>
    /\ pc.call = "write_pixels" /\ pc.at <= Len(write_pixels)
    /\ wire' = Append(wire, Event(write_pixels[pc.at], TRUE))
    /\ pc' = [pc EXCEPT !.at = @ + 1]
    /\ UNCHANGED <<options, rst, colors, input, ret, prev>>

\* Slip: the result of the command is dropped and the payload is sent anyway
WpCmdFail_ignored ==
    /\ UNCHANGED <<codec, pending>>
    /\ pc.call = "write_pixels" /\ pc.at <= Len(write_pixels)
    /\ wire' = Append(wire, Event(write_pixels[pc.at], FALSE))
    /\ pc' = [pc EXCEPT !.at = @ + 1]
    /\ UNCHANGED <<options, rst, colors, input, ret, prev>>

\* dcs.write_command(WriteMemoryStart)? fails
WpCmdFail ==
    /\ UNCHANGED <<codec, pending>>
    /\ pc.call = "write_pixels" /\ pc.at <= Len(write_pixels)
    /\ wire' = Append(wire, Event(write_pixels[pc.at], FALSE))
    /\ WpReturn("CommandFailure")
    /\ UNCHANGED <<options, rst, colors, input, prev>>

\* dcs.di.send_data(DataFormat::U16BEIter(&mut iter)) is entered
WpSendData ==
    /\ UNCHANGED <<codec, pending>>
    /\ pc.call = "write_pixels" /\ pc.at = Len(write_pixels) + 1
    /\ wire' = Append(wire, [kind |-> "data", op |-> "U16BEIter", params |-> <<>>, ok |-> TRUE])
    /\ pc' = [pc EXCEPT !.at = @ + 1]
    /\ UNCHANGED <<options, rst, colors, input, ret, prev>>

InSendData == pc.call = "write_pixels" /\ pc.at = Len(write_pixels) + 2

\* The transport calls iter.next(): the closure of line 50 runs
\* c.into_storage() on the next colour, and the transport holds its two bytes.
\* How many colours it takes before it writes is the transport's choice.
WpPull ==
    /\ InSendData
    /\ colors # <<>>
    /\ pending' = pending \o U16BE(into_storage(Head(colors)))
    /\ colors' = Tail(colors)
    /\ UNCHANGED <<pc, options, rst, input, wire, ret, prev, codec>>

\* The transport puts the next byte it holds on the bus
WpSend ==
    /\ InSendData
    /\ pending # <<>>
    /\ wire' = [wire EXCEPT ![Len(wire)].params = Append(@, Head(pending))]
    /\ pending' = Tail(pending)
    /\ UNCHANGED <<pc, options, rst, colors, input, ret, prev, codec>>

\* The transport fails inside send_data, whatever it has taken or sent; what
\* it held is lost
WpDataFail ==
    /\ InSendData
    /\ wire' = [wire EXCEPT ![Len(wire)].ok = FALSE]
    /\ pending' = <<>>
    /\ WpReturn("CommandFailure")
    /\ UNCHANGED <<options, rst, colors, input, prev, codec>>

\* The iterator is exhausted, every byte is out, and send_data returns Ok(())
WpOk ==
    /\ InSendData
    /\ colors = <<>>
    /\ pending = <<>>
    /\ WpReturn("Ok")
    /\ UNCHANGED <<options, rst, colors, input, wire, prev, codec, pending>>

Next ==
    \/ \E o \in ModelOptions, r \in RstArgs : InitCall(o, r)
    \/ InitCmdOk
    \/ InitCmdFail
    \/ InitDelay
    \/ InitRstOk
    \/ InitRstFail
    \/ InitOk
    \/ \E cs \in PixelSeqs : WritePixelsCall(cs)
    \/ WpCmdOk
    \/ WpCmdFail
    \/ WpSendData
    \/ WpPull
    \/ WpSend
    \/ WpDataFail
    \/ WpOk

Spec == Init /\ [][Next]_vars

\* A statement of a running init is executed: every transport, reset-line and
\* delay call returns
InitProgress ==
    InitCmdOk \/ InitCmdFail \/ InitDelay \/ InitRstOk \/ InitRstFail \/ InitOk

\* The init calls alone: init reads nothing a write_pixels call leaves behind
InitNext ==
    \/ \E o \in ModelOptions, r \in RstArgs : InitCall(o, r)
    \/ InitCmdOk
    \/ InitCmdFail
    \/ InitDelay
    \/ InitRstOk
    \/ InitRstFail
    \/ InitOk

\* The calls are synchronous: a running init keeps executing
LiveSpec == Init /\ [][InitNext]_vars /\ WF_vars(InitProgress)

\* The codec on its own: any sampled command into any sampled buffer
CodecInit ==
    /\ pc = Idle
    /\ options = DefaultOptions
    /\ rst = "None"
    /\ colors = <<>>
    /\ input = <<>>
    /\ wire = <<>>
    /\ ret = NoRet
    /\ prev = NoPrev
    /\ pending = <<>>
    /\ codec \in {CodecInput(cmd, cap, fill) :
                     cmd \in CodecCommands, cap \in Capacities, fill \in Fills}

CodecNext ==
    \/ FillParamsBuf
    \/ CmStruct

CodecSpec == CodecInit /\ [][CodecNext]_vars

-----------------------------------------------------------------------------
(* Reading the wire *)

RECURSIVE IsPrefix(_, _)
IsPrefix(a, b) ==
    IF a = <<>> THEN TRUE
    ELSE b # <<>> /\ Head(a) = Head(b) /\ IsPrefix(Tail(a), Tail(b))

IsCmd(e) == e.kind = "cmd"
Cmds(w) == SelectSeq(w, IsCmd)
IsRst(e) == e.kind = "rst"
Rsts(w) == SelectSeq(w, IsRst)
Ops(w) == [i \in 1..Len(w) |-> w[i].op]
AllOk(w) == \A i \in 1..Len(w) : w[i].ok
Count(w, op) == Cardinality({i \in 1..Len(w) : w[i].op = op})

\* The call the wire belongs to is an init (running or returned)
InInit == pc.call = "init" \/ (pc.call = "idle" /\ ret.call = "init")
InitReturnedOk == pc.call = "idle" /\ ret.call = "init" /\ ret.status = "Ok"
PrevOk == prev.valid /\ prev.ret.status = "Ok"

SettleUs == 120000
IsSettle(e) == e.kind = "delay" /\ e.params[1] >= SettleUs

\* The states of the initialization sequencer after Reset, as the commands that
\* realise them
AfterReset ==
    << "ExitSleepMode", "SetPixelFormat", "SetAddressMode", "SetInvertMode",
       "0xc5", "0xb1", "0xe0", "0xe1", "0xB6", "EnterNormalMode", "SetDisplayOn" >>

OptionDependent == {"SetPixelFormat", "SetAddressMode", "SetInvertMode"}

-----------------------------------------------------------------------------
(* Claims *)

\* C1: with a transport that never fails, the commands init sends follow the
\* fixed order Reset, SleepExit, PixelFormatSet, OrientationSet, InversionSet,
\* VendorTuning (0xc5, 0xb1), GammaLoad (0xe0, 0xe1), MemoryAccessFinalize
\* (0xB6), NormalModeEnter, DisplayOn, whatever the options; Reset is the
\* software-reset command when no reset line is supplied and the reset-line
\* toggle otherwise.  Two successful runs with the same reset path differ at
\* most in the parameters of PixelFormatSet, OrientationSet and InversionSet.
C1_FixedOrder ==
    LET order == (IF rst = "None" THEN <<"SoftReset">> ELSE <<>>) \o AfterReset
        sent  == Ops(Cmds(wire))
    IN  (InInit /\ AllOk(Cmds(wire))) =>
            /\ IsPrefix(sent, order)
            /\ InitReturnedOk => sent = order
            /\ (InitReturnedOk /\ PrevOk /\ prev.rst = rst) =>
                   /\ Len(prev.wire) = Len(wire)
                   /\ \A i \in 1..Len(wire) :
                          /\ prev.wire[i].op = wire[i].op
                          /\ prev.wire[i] # wire[i] => wire[i].op \in OptionDependent

C1_Witness ==
    /\ InitReturnedOk /\ PrevOk /\ prev.rst = rst
    /\ options.rotation = 90 /\ options.invert_colors /\ options.color_order = "Bgr"
    /\ prev.options.rotation = 0 /\ ~prev.options.invert_colors
    /\ prev.wire # wire

\* C2: with rst = None the first thing init does is send the software-reset
\* command; it is sent once in the call and nothing precedes it.
C2_SoftResetFirst ==
    (InInit /\ rst = "None" /\ wire # <<>>) =>
        /\ wire[1].kind = "cmd" /\ wire[1].op = "SoftReset"
        /\ Count(wire, "SoftReset") = 1
        /\ \A i \in 1..Len(wire) : wire[i].op = "ExitSleepMode" => i > 1

C2_Witness ==
    /\ InitReturnedOk /\ rst = "None"
    /\ Count(wire, "SoftReset") = 1 /\ Count(wire, "ExitSleepMode") = 1

\* C3: with rst = Some no software-reset command is sent during the call, and
\* the reset line sees exactly one set_low followed by one set_high, both done
\* before the first command reaches the transport.
C3_HardResetOnly ==
    (InInit /\ rst = "Some") =>
        /\ Count(wire, "SoftReset") = 0
        /\ IsPrefix(Ops(Rsts(wire)), <<"set_low", "set_high">>)
        /\ \A i \in 1..Len(wire) :
               IsCmd(wire[i]) =>
                   /\ Ops(Rsts(SubSeq(wire, 1, i))) = <<"set_low", "set_high">>
                   /\ AllOk(Rsts(wire))
        /\ InitReturnedOk => Ops(Rsts(wire)) = <<"set_low", "set_high">>

C3_Witness ==
    /\ InitReturnedOk /\ rst = "Some"
    /\ Count(wire, "set_low") = 1 /\ Count(wire, "set_high") = 1
    /\ Count(wire, "SetDisplayOn") = 1

\* The reset step has just completed at wire[j]
ResetDone(e) ==
    /\ e.ok
    /\ \/ e.kind = "cmd" /\ e.op = "SoftReset"
       \/ e.kind = "rst" /\ e.op = "set_high"

\* C4: on both reset paths the reset step is followed at once by a delay of at
\* least 120000 us, and every command after the reset step comes after that
\* delay has ended.
C4_SettleAfterReset ==
    InInit =>
        \A i \in 1..Len(wire) :
            /\ (ResetDone(wire[i]) /\ i < Len(wire)) => IsSettle(wire[i + 1])
            /\ (IsCmd(wire[i]) /\ wire[i].op # "SoftReset") =>
                   \E j \in 2..(i - 1) : IsSettle(wire[j]) /\ ResetDone(wire[j - 1])

C4_WitnessSoft ==
    /\ pc.call = "init" /\ rst = "None"
    /\ Len(wire) = 3 /\ wire[3].op = "ExitSleepMode" /\ IsSettle(wire[2])

C4_Witness ==
    /\ pc.call = "init" /\ rst = "Some"
    /\ Len(wire) = 5 /\ wire[5].op = "ExitSleepMode" /\ IsSettle(wire[4])
    /\ wire[3].op = "set_high"

\* C5: once DisplayOn is accepted the only thing init still does is a delay of
\* at least 120000 us, and it returns Ok only after it; so when write_pixels
\* runs after a successful init, its begin-memory-write comes after that delay.
C5_SettleAfterDisplayOn ==
    LET EndsSettled(w) ==
            /\ Len(w) >= 2
            /\ IsSettle(w[Len(w)])
            /\ w[Len(w) - 1].op = "SetDisplayOn" /\ w[Len(w) - 1].ok
            /\ \A i \in 1..Len(w) : w[i].op = "SetDisplayOn" => i = Len(w) - 1
    IN  /\ InitReturnedOk => EndsSettled(wire)
        /\ InInit =>
               \A i \in 1..Len(wire) :
                   (wire[i].op = "SetDisplayOn" /\ wire[i].ok /\ i < Len(wire)) =>
                       (i + 1 = Len(wire) /\ IsSettle(wire[i + 1]))
        /\ (Count(wire, "WriteMemoryStart") > 0 /\ PrevOk /\ prev.adjacent) =>
               EndsSettled(prev.wire)

C5_Witness ==
    /\ Count(wire, "WriteMemoryStart") = 1 /\ PrevOk /\ prev.adjacent
    /\ IsSettle(prev.wire[Len(prev.wire)])

\* C6: when the transport fails on a command of init, that command is the last
\* thing init does: it is not sent again, nothing follows it, and init returns
\* the bus/command failure kind.
C6_AbortOnCommandFailure ==
    InInit =>
        \A i \in 1..Len(wire) :
            (IsCmd(wire[i]) /\ ~wire[i].ok) =>
                /\ i = Len(wire)
                /\ Count(wire, wire[i].op) = 1
                /\ pc.call = "idle"
                /\ ret.status = "CommandFailure"

C6_Witness ==
    /\ pc.call = "idle" /\ ret.call = "init" /\ ret.status = "CommandFailure"
    /\ rst = "None" /\ Len(wire) = 10
    /\ wire[10].op = "0xe1" /\ ~wire[10].ok

\* C7: when the reset line fails, init returns the reset-line failure kind, has
\* sent no command and runs no settle delay; a transport failure is never
\* reported as a reset-line failure, nor a reset-line failure as a bus failure.
C7_ResetLineFailure ==
    InInit =>
        /\ \A i \in 1..Len(wire) :
               (IsRst(wire[i]) /\ ~wire[i].ok) =>
                   /\ i = Len(wire)
                   /\ pc.call = "idle"
                   /\ ret.status = "ResetLineFailure"
                   /\ Cmds(wire) = <<>>
                   /\ \A j \in 1..Len(wire) : ~IsSettle(wire[j])
        /\ ret.status = "ResetLineFailure" =>
               (wire # <<>> /\ IsRst(wire[Len(wire)]) /\ ~wire[Len(wire)].ok)
        /\ ret.status = "CommandFailure" =>
               (wire # <<>> /\ IsCmd(wire[Len(wire)]) /\ ~wire[Len(wire)].ok)

C7_Witness ==
    /\ pc.call = "idle" /\ ret.call = "init" /\ ret.status = "ResetLineFailure"
    /\ Len(wire) = 3 /\ wire[3].op = "set_high" /\ ~wire[3].ok

\* C8: the mode a successful init returns is the one it wrote in its
\* OrientationSet step, and two successful inits given the same rotation,
\* mirroring and colour order return the same mode, whatever their reset path.
C8_ReturnsWrittenMode ==
    InitReturnedOk =>
        /\ Count(wire, "SetAddressMode") = 1
        /\ \A i \in 1..Len(wire) :
               wire[i].op = "SetAddressMode" => wire[i].params = <<ret.value>>
        /\ ( /\ PrevOk
             /\ prev.options.rotation = options.rotation
             /\ prev.options.mirrored = options.mirrored
             /\ prev.options.color_order = options.color_order )
           => prev.ret.value = ret.value

C8_Witness ==
    /\ InitReturnedOk /\ PrevOk
    /\ prev.options = options /\ prev.rst # rst
    /\ options.rotation = 270 /\ options.mirrored
    /\ ret.value # 0

\* C9: two init calls in succession with the same options, the same reset-line
\* presence and no failure make the same collaborator calls with the same
\* parameters and return the same mode.
C9_InitIdempotent ==
    ( /\ InitReturnedOk
      /\ PrevOk /\ prev.adjacent
      /\ prev.options = options /\ prev.rst = rst )
    => (prev.wire = wire /\ prev.ret = ret)

C9_Witness ==
    /\ InitReturnedOk
    /\ PrevOk /\ prev.adjacent
    /\ prev.options = options /\ prev.rst = rst
    /\ options.rotation = 180 /\ options.invert_colors
    /\ Len(wire) = 14

\* rrrrrggg gggbbbbb
StorageHigh(c) == c.r * 8 + c.g \div 8
StorageLow(c) == (c.g % 8) * 32 + c.b

\* C10: a write_pixels that meets no failure sends one begin-memory-write
\* command and then one data payload of 2 bytes per pixel, pixel i as the high
\* then the low byte of its storage value, in the order given; while the
\* payload is being sent each pixel is taken from the sequence once, in order,
\* and the bytes sent followed by the bytes the transport holds are the
\* encoding of the pixels taken.
C10_PixelPayload ==
    LET n == Len(input)
        taken == n - Len(colors)
    IN  /\ (pc.call = "write_pixels" /\ Len(wire) = 2) =>
               LET bytes == wire[2].params \o pending
               IN  /\ wire[2].kind = "data"
                   /\ colors = SubSeq(input, taken + 1, n)
                   /\ Len(bytes) = 2 * taken
                   /\ \A i \in 1..taken :
                          /\ bytes[2 * i - 1] = StorageHigh(input[i])
                          /\ bytes[2 * i] = StorageLow(input[i])
        /\ (pc.call = "idle" /\ ret.call = "write_pixels" /\ ret.status = "Ok") =>
               /\ Len(wire) = 2
               /\ wire[1] = [kind |-> "cmd", op |-> "WriteMemoryStart",
                             params |-> <<>>, ok |-> TRUE]
               /\ wire[2].kind = "data" /\ wire[2].ok
               /\ colors = <<>>
               /\ Len(wire[2].params) = 2 * n
               /\ \A i \in 1..n :
                      /\ wire[2].params[2 * i - 1] = StorageHigh(input[i])
                      /\ wire[2].params[2 * i] = StorageLow(input[i])

C10_Witness ==
    /\ pc.call = "idle" /\ ret.call = "write_pixels" /\ ret.status = "Ok"
    /\ Len(input) = 2
    /\ input[1] = [r |-> 2, g |-> 17, b |-> 20]
    /\ input[2] = [r |-> 31, g |-> 0, b |-> 0]
    /\ wire[2].params = <<18, 52, 248, 0>>

\* The call the wire belongs to is a write_pixels whose payload has begun
InPayload ==
    /\ pc.call = "write_pixels" \/ (pc.call = "idle" /\ ret.call = "write_pixels")
    /\ Len(wire) = 2

\* The payload is being sent, or was sent in full
PayloadUnbroken == InPayload /\ wire[2].ok

\* C11: the bits-per-pixel init programs in its PixelFormatSet step is 16, and
\* write_pixels encodes every pixel it takes as 16 bits, sent or held by the
\* transport, so a payload sent in full has 16 bits per pixel; when the write
\* follows a successful init, the programmed value times the pixels taken is
\* that number of bits.
C11_PixelFormatMatchesWire ==
    LET taken == Len(input) - Len(colors)
        sent  == 8 * (Len(wire[2].params) + Len(pending))
    IN  /\ InInit =>
               \A i \in 1..Len(wire) :
                   wire[i].op = "SetPixelFormat" => wire[i].params = <<16>>
        /\ PayloadUnbroken => sent = 16 * taken
        /\ (pc.call = "idle" /\ ret.call = "write_pixels" /\ ret.status = "Ok") =>
               8 * Len(wire[2].params) = 16 * Len(input)
        /\ (PayloadUnbroken /\ PrevOk) =>
               \A i \in 1..Len(prev.wire) :
                   prev.wire[i].op = "SetPixelFormat" =>
                       sent = prev.wire[i].params[1] * taken

C11_Witness ==
    /\ InPayload /\ PrevOk /\ prev.adjacent
    /\ pc.call = "idle" /\ ret.status = "Ok"
    /\ Len(input) = 2 /\ Len(wire[2].params) = 4
    /\ Count(prev.wire, "SetPixelFormat") = 1

EncodedOnce == codec.runs >= 1 /\ codec.test = "none"

\* C12: encoding a set-column-address command into a buffer of capacity 4 or
\* more gives instruction 0x2A and returns 4, having written start then end,
\* each as 16 bits big-endian, and nothing else; start 0, end 5 gives
\* 0, 0, 0, 5; a repetition gives the same outcome; the repository's test of
\* this encoding passes.
C12_ColumnAddressEncoding ==
    /\ codec.test # "failed"
    /\ (EncodedOnce /\ codec.cmd.name = "SetColumnAddress" /\ Len(codec.orig) >= 4) =>
           /\ codec.ins = 42
           /\ codec.out.res = "Ok" /\ codec.out.n = 4
           /\ Len(codec.out.buf) = Len(codec.orig)
           /\ codec.out.buf[1] = codec.cmd.start \div 256
           /\ codec.out.buf[2] = codec.cmd.start % 256
           /\ codec.out.buf[3] = codec.cmd.end \div 256
           /\ codec.out.buf[4] = codec.cmd.end % 256
           /\ \A i \in 5..Len(codec.orig) : codec.out.buf[i] = codec.orig[i]
           /\ (codec.cmd.start = 0 /\ codec.cmd.end = 5) =>
                  SubSeq(codec.out.buf, 1, 4) = <<0, 0, 0, 5>>
           /\ codec.out = codec.first

\* Start 319 = 0x013F and end 479 = 0x01DF: each byte of the encoding differs,
\* so the order of the two values and of the bytes of each shows
C12_Witness ==
    /\ codec.test = "none" /\ codec.runs = 2
    /\ codec.cmd = SetColumnAddress(319, 479)
    /\ Len(codec.orig) = 5
    /\ codec.out.res = "Ok" /\ codec.out.n = 4
    /\ codec.out.buf = <<1, 63, 1, 223, 170>>

C12_WitnessExample ==
    /\ codec.test = "none" /\ codec.runs = 2
    /\ codec.cmd = SetColumnAddress(0, 5)
    /\ Len(codec.orig) = 5
    /\ codec.out.buf = <<0, 0, 0, 5, 170>>

C12_WitnessTest == codec.test = "passed"

ParamCount(cmd) == IF cmd.name = "SetAddressMode" THEN 1 ELSE 4

\* C13: encoding a command with more parameter bytes than the buffer can hold
\* fails with BufferTooSmall and leaves the buffer as it was, on every
\* repetition.
C13_BufferTooSmall ==
    (EncodedOnce /\ ParamCount(codec.cmd) > Len(codec.orig)) =>
        /\ codec.out.res = "BufferTooSmall"
        /\ codec.out.buf = codec.orig
        /\ codec.out = codec.first

C13_Witness ==
    /\ codec.test = "none" /\ codec.runs = 2
    /\ codec.cmd = SetColumnAddress(0, 5)
    /\ codec.orig = <<170, 170, 170>>
    /\ codec.out.res = "BufferTooSmall"

InWrite == pc.call = "write_pixels" \/ (pc.call = "idle" /\ ret.call = "write_pixels")
LastInitFailed == prev.valid /\ prev.ret.status \in {"CommandFailure", "ResetLineFailure"}

\* C14 as claimed: after an init that returned an error, write_pixels sends
\* neither the begin-memory-write command nor pixel data until a later init
\* has reached Ready.
C14_Original ==
    (InWrite /\ LastInitFailed) => wire = <<>>

\* C14 as amended: the driver keeps no record of a failed init; write_pixels
\* called after one sends the begin-memory-write command first and, when the
\* transport accepts everything, the whole payload of 2 bytes per pixel, as it
\* does after a successful init.
C14_WritePixelsKeepsNoRecord ==
    (InWrite /\ LastInitFailed) =>
        /\ wire # <<>> => (wire[1].kind = "cmd" /\ wire[1].op = "WriteMemoryStart")
        /\ (pc.call = "idle" /\ ret.status = "Ok") =>
               /\ Len(wire) = 2
               /\ wire[2].kind = "data"
               /\ Len(wire[2].params) = 2 * Len(input)

C14_Witness ==
    /\ InWrite /\ LastInitFailed /\ prev.adjacent
    /\ pc.call = "idle" /\ ret.status = "Ok"
    /\ Len(input) = 2 /\ Len(wire[2].params) = 4

InitReturned == pc.call = "idle" /\ ret.call = "init"
Settles(w) == Cardinality({i \in 1..Len(w) : IsSettle(w[i])})

\* Every step of an init was done and accepted: the reset step, the first
\* settle delay, the eleven commands SleepExit..DisplayOn, the second delay
RanToReady(w) ==
    LET first == IF rst = "None" THEN 2 ELSE 4
    IN  /\ AllOk(w)
        /\ Len(w) = first + 12
        /\ IF rst = "None"
           THEN w[1].kind = "cmd" /\ w[1].op = "SoftReset"
           ELSE Ops(Rsts(w)) = <<"set_low", "set_high">> /\ w[3].op = "set_high"
        /\ IsSettle(w[first])
        /\ \A k \in 1..11 : IsCmd(w[first + k]) /\ w[first + k].op = AfterReset[k]
        /\ IsSettle(w[first + 12])

\* C15: init returns Ok exactly when the reset step succeeded, the first settle
\* delay ran, each of the eleven commands SleepExit..DisplayOn was accepted and
\* the second settle delay ran; every other run returns an InitError, and
\* nothing is reported while the call is running.
C15_NoPartialSuccess ==
    /\ pc.call = "init" => ret = NoRet
    /\ InitReturned =>
           /\ ret.status \in {"Ok", "CommandFailure", "ResetLineFailure"}
           /\ ret.status = "Ok" <=> RanToReady(wire)

C15_Witness ==
    /\ InitReturned /\ ret.status = "Ok" /\ rst = "Some" /\ RanToReady(wire)

C15_WitnessError ==
    /\ InitReturned /\ ret.status = "CommandFailure"
    /\ Len(wire) = 13 /\ wire[13].op = "SetDisplayOn"

\* The big-endian encoding of the pixel sequence starts with these bytes
IsEncodedPrefix(bytes, pixels) ==
    /\ Len(bytes) <= 2 * Len(pixels)
    /\ \A k \in 1..Len(bytes) :
           bytes[k] = IF k % 2 = 1 THEN StorageHigh(pixels[(k + 1) \div 2])
                      ELSE StorageLow(pixels[k \div 2])

\* C16: when the transport fails on the begin-memory-write command,
\* write_pixels returns the error having sent no data and taken no pixel; when
\* it fails inside the payload, write_pixels returns the error with the command
\* sent once, the payload begun once, and the bytes sent a prefix of the
\* big-endian encoding of the sequence, none of them from a pixel not yet
\* taken (the transport may have taken more pixels than it sent).
C16_WritePixelsFailure ==
    (pc.call = "idle" /\ ret.call = "write_pixels" /\ ret.status # "Ok") =>
        /\ ret.status = "CommandFailure"
        /\ \/ /\ Len(wire) = 1
              /\ IsCmd(wire[1]) /\ wire[1].op = "WriteMemoryStart" /\ ~wire[1].ok
              /\ colors = input
           \/ /\ Len(wire) = 2
              /\ IsCmd(wire[1]) /\ wire[1].op = "WriteMemoryStart" /\ wire[1].ok
              /\ wire[2].kind = "data" /\ ~wire[2].ok
              /\ IsEncodedPrefix(wire[2].params, input)
              /\ Len(wire[2].params) <= 2 * (Len(input) - Len(colors))

C16_Witness ==
    /\ pc.call = "idle" /\ ret.call = "write_pixels" /\ ret.status = "CommandFailure"
    /\ Len(input) = 2 /\ Len(wire) = 2
    /\ Len(wire[2].params) = 3 /\ colors = <<>>

C16_WitnessCommand ==
    /\ pc.call = "idle" /\ ret.call = "write_pixels" /\ ret.status = "CommandFailure"
    /\ Len(input) = 2 /\ Len(wire) = 1 /\ colors = input

FixedWrites == {"0xc5", "0xb1", "0xe0", "0xe1", "0xB6"}

\* C17: the parameter bytes of the VCOM, frame-rate, gamma and
\* memory-access-finalize writes are the literals of the source in every init
\* run, so two successful runs with different options send the same bytes for
\* these five writes.
C17_FixedParameters ==
    /\ InInit =>
           \A i \in 1..Len(wire) :
               /\ wire[i].op = "0xc5" => wire[i].params = <<0, 30, 128, 177>>
               /\ wire[i].op = "0xb1" => wire[i].params = <<176>>
               /\ wire[i].op = "0xe0" =>
                      wire[i].params = <<0, 19, 24, 4, 15, 6, 58, 86, 77, 3, 10, 6, 48, 62, 15>>
               /\ wire[i].op = "0xe1" =>
                      wire[i].params = <<0, 19, 24, 1, 17, 6, 56, 52, 77, 6, 13, 11, 49, 55, 15>>
               /\ wire[i].op = "0xB6" => wire[i].params = <<0, 66>>
    /\ (InitReturnedOk /\ PrevOk) =>
           \A i \in 1..Len(wire), j \in 1..Len(prev.wire) :
               (wire[i].op \in FixedWrites /\ prev.wire[j].op = wire[i].op) =>
                   prev.wire[j].params = wire[i].params

C17_Witness ==
    /\ InitReturnedOk /\ PrevOk
    /\ options.rotation = 270 /\ options.mirrored /\ options.invert_colors
    /\ prev.options.rotation = 0 /\ ~prev.options.mirrored
    /\ \A op \in FixedWrites : Count(wire, op) = 1 /\ Count(prev.wire, op) = 1

\* What an init has done so far stays within the straight line of its code
C18_Bounded ==
    InInit =>
        /\ Len(Cmds(wire)) <= (IF rst = "None" THEN 12 ELSE 11)
        /\ \A i \in 1..Len(wire), j \in 1..Len(wire) :
               (i # j /\ wire[i].op = wire[j].op) => wire[i].kind = "delay"
        /\ Settles(wire) <= 2
        /\ pc.call = "init" => pc.at = Len(wire) + 1

\* A step of a running init either returns or moves to the next statement
C18_Forward ==
    pc.call = "init" =>
        \/ pc'.call = "idle"
        \/ pc'.call = "init" /\ pc'.at = pc.at + 1

\* C18: init is a straight line and terminates: it sends at most 12 commands
\* (11 with a reset line), no command or reset-line call twice, runs at most
\* two settle delays, never goes back to an earlier statement, and, every
\* collaborator call returning, always returns.
C18_LinearAndTerminates ==
    /\ []C18_Bounded
    /\ [][C18_Forward]_vars
    /\ (pc.call = "init") ~> (pc.call = "idle")

C18_Witness ==
    /\ InitReturnedOk /\ rst = "None"
    /\ Len(Cmds(wire)) = 12 /\ Settles(wire) = 2

C18_WitnessHard ==
    /\ InitReturnedOk /\ rst = "Some"
    /\ Len(Cmds(wire)) = 11 /\ Settles(wire) = 2

\* C19: every command init or write_pixels dispatches carries at most 16
\* parameter bytes, the longest being the 15 bytes of a gamma table, and the
\* address mode init writes fits the dispatcher's 16-byte buffer.
C19_ParametersFit ==
    LET zero == [i \in 1..BufferCapacity |-> 0]
    IN  /\ \A i \in 1..Len(wire) :
               IsCmd(wire[i]) =>
                   /\ Len(wire[i].params) <= BufferCapacity
                   /\ Len(wire[i].params) = 15 => wire[i].op \in {"0xe0", "0xe1"}
                   /\ wire[i].op = "SetAddressMode" =>
                          fill_params_buf(AddressModeCommand(wire[i].params[1]), zero).res = "Ok"
        /\ ret.status # "BufferTooSmall"

C19_Witness ==
    /\ InitReturnedOk
    /\ \E i \in 1..Len(wire) : wire[i].op = "0xe1" /\ Len(wire[i].params) = 15
    /\ \E i \in 1..Len(wire) : wire[i].op = "SetAddressMode" /\ wire[i].params = <<200>>

\* The transport took a pixel and failed before a byte of it went out
C16_WitnessTakenNotSent ==
    /\ pc.call = "idle" /\ ret.call = "write_pixels" /\ ret.status = "CommandFailure"
    /\ Len(input) = 2 /\ Len(wire) = 2
    /\ wire[2].params = <<>> /\ Len(colors) = 1

====
